---- MODULE Spec2Model ----
(***************************************************************************)
(* State-machine model of farm_game.py: the FarmingGame object (money,     *)
(* day, farm_plots, inventory, game_over), the command loop of run() and   *)
(* the handlers plant, water, harvest, visit_shop and advance_day with     *)
(* handle_random_event.  Player input and the random source are the        *)
(* nondeterministic inputs of the actions.                                 *)
(***************************************************************************)
EXTENDS Integers, Sequences, FiniteSets, TLC

(* ----------------------------- configuration --------------------------- *)

\* CROP_DATA without the presentation-only fields icon and info.
CROP_DATA ==
  [ wheat  |-> [growth_time |-> 4, seed_price |-> 10, sell_price |-> 25],
    corn   |-> [growth_time |-> 5, seed_price |-> 15, sell_price |-> 40],
    potato |-> [growth_time |-> 3, seed_price |-> 5,  sell_price |-> 15],
    carrot |-> [growth_time |-> 3, seed_price |-> 8,  sell_price |-> 20] ]

INITIAL_MONEY == 100
INITIAL_PLOTS == 4
GAME_GOAL == 500

\* random.random() is modelled in hundredths; the two thresholds of
\* handle_random_event are 0.15 and 0.30.
PEST_BELOW == 15
RAIN_BELOW == 30

\* Python's None for an empty plot's crop.
None == "None"

(* ------------------------------- bounds -------------------------------- *)

\* advance_day is not taken once the day counter has reached MaxDay.
MaxDay == 5

\* BuySeed is not taken for a kind of which MaxSeeds seeds are held.
MaxSeeds == 2

\* The carrot grower of SpecSeason goes to bed for the last time on the eve
\* of day MaxSeason.
MaxSeason == 30

\* What the player types at the seed prompt of plant().
SeedInputs == {"Carrot", "turnip"}
\* What the player types at a plot-number prompt.
PlotInputs == {"abc", "0", "1", "2", "5"}
\* What the player types at the shop prompt (besides 'exit').
ShopInputs == {"carrot", "turnip"}
\* Values of random.random(), in hundredths.
Samples == {14, 15, 29, 30}

(* ------------------------- conversions of input ------------------------ *)

\* str.lower() on the inputs the player can type.
lower(str) ==
  CASE str = "Potato" -> "potato"
    [] str = "Carrot" -> "carrot"
    [] str = "Wheat"  -> "wheat"
    [] str = "Corn"   -> "corn"
    [] OTHER          -> str

\* The strings int() accepts, with their values; on any other string int()
\* raises ValueError.
IntLiterals ==
  [ s \in {"-1", "0", "1", "2", "3", "4", "5", "6"} |->
      CASE s = "-1" -> 0 - 1
        [] s = "0"  -> 0
        [] s = "1"  -> 1
        [] s = "2"  -> 2
        [] s = "3"  -> 3
        [] s = "4"  -> 4
        [] s = "5"  -> 5
        [] s = "6"  -> 6 ]

raises_ValueError(str) == str \notin DOMAIN IntLiterals

int(str) == IntLiterals[str]

\* f"{crop} seeds"
seed_name_of(crop) == crop \o " seeds"

(* -------------------------------- state -------------------------------- *)

VARIABLES
  money,       \* self.money
  day,         \* self.day
  farm_plots,  \* self.farm_plots, a sequence; list index k is element k+1
  inventory,   \* self.inventory, a function from the keys present to counts
  game_over,   \* self.game_over
  pc,          \* "menu": at the prompt of run(); "shop": in visit_shop's loop
  last         \* the last command, its inputs and the outcome it printed

vars == <<money, day, farm_plots, inventory, game_over, pc, last>>

\* The fields of the game object as one value.
self ==
  [ money |-> money, day |-> day, farm_plots |-> farm_plots,
    inventory |-> inventory, game_over |-> game_over ]

EmptyPlot == [crop |-> None, growth_stage |-> 0, watered |-> FALSE]

NoInput == "-"

Init ==
  /\ money = INITIAL_MONEY
  /\ day = 1
  /\ farm_plots = [k \in 1..INITIAL_PLOTS |-> EmptyPlot]
  /\ inventory = [k \in {"wheat seeds", "potato seeds"} |-> 5]
  /\ game_over = FALSE
  /\ pc = "menu"
  /\ last = [op |-> "init", crop |-> NoInput, plot |-> NoInput,
             chance |-> -1, out |-> "Started"]

\* A handler's result: the game object it leaves and the outcome it reports.
Result(g, outcome) == [g |-> g, out |-> outcome]

\* The step that runs a handler to completion.
Commit(r, cmd, nextpc) ==
  /\ money' = r.g.money
  /\ day' = r.g.day
  /\ farm_plots' = r.g.farm_plots
  /\ inventory' = r.g.inventory
  /\ game_over' = r.g.game_over
  /\ pc' = nextpc
  /\ last' = [cmd EXCEPT !.out = r.out]

Cmd(o, c, p, ch) ==
  [op |-> o, crop |-> c, plot |-> p, chance |-> ch, out |-> "-"]

(* -------------------------------- plant -------------------------------- *)

\* dict with one key deleted
del(d, key) == [k \in (DOMAIN d) \ {key} |-> d[k]]

\* 0 <= plot_num < len(self.farm_plots)
valid_plot_num(g, plot_num) == 0 <= plot_num /\ plot_num < Len(g.farm_plots)

\* A seed removed without dropping the entry that reaches 0.
consume_seed_keeps_entry(inv, seed_name) ==
  [inv EXCEPT ![seed_name] = @ - 1]

\* self.inventory[seed_name] -= 1, and del when the count is 0
consume_seed(inv, seed_name) ==
  LET fewer == [inv EXCEPT ![seed_name] = @ - 1] IN
  IF fewer[seed_name] = 0 THEN del(fewer, seed_name) ELSE fewer

\* A plot sown by updating the dict in place, which keeps its watered flag.
sown_in_place(plot, crop) ==
  [plot EXCEPT !.crop = crop, !.growth_stage = 0]

\* The new dict bound to a local name: the list keeps the old plot.
sown_to_local(plot, crop) == plot

\* The dict that replaces the plot.
sown(plot, crop) ==
  [crop |-> crop, growth_stage |-> 0, watered |-> FALSE]

\* plant asking for the plot before looking at the inventory.
plant_index_first(g, seed_input, plot_input) ==
  LET seed_to_plant == lower(seed_input)
      seed_name == seed_name_of(seed_to_plant)
  IN
  IF raises_ValueError(plot_input)
  THEN Result(g, "ValueError")
  ELSE
    LET plot_num == int(plot_input) - 1 IN
    IF ~ valid_plot_num(g, plot_num)
    THEN Result(g, "InvalidPlotIndex")
    ELSE IF seed_name \notin DOMAIN g.inventory \/ g.inventory[seed_name] = 0
    THEN Result(g, "InsufficientInventory")
    ELSE IF g.farm_plots[plot_num + 1].crop # None
    THEN Result(g, "PlotOccupied")
    ELSE
      Result([g EXCEPT
                !.farm_plots[plot_num + 1] = sown(@, seed_to_plant),
                !.inventory = consume_seed(@, seed_name)],
             "Planted")

\* plant taking the seed out of the inventory before the plot is validated.
plant_takes_seed_first(g, seed_input, plot_input) ==
  LET seed_to_plant == lower(seed_input)
      seed_name == seed_name_of(seed_to_plant)
  IN
  IF seed_name \notin DOMAIN g.inventory \/ g.inventory[seed_name] = 0
  THEN Result(g, "InsufficientInventory")
  ELSE
    LET taken == [g EXCEPT !.inventory = consume_seed(@, seed_name)] IN
    IF raises_ValueError(plot_input)
    THEN Result(taken, "ValueError")
    ELSE
      LET plot_num == int(plot_input) - 1 IN
      IF ~ valid_plot_num(g, plot_num)
      THEN Result(taken, "InvalidPlotIndex")
      ELSE IF g.farm_plots[plot_num + 1].crop # None
      THEN Result(taken, "PlotOccupied")
      ELSE
        Result([taken EXCEPT
                  !.farm_plots[plot_num + 1] = sown(@, seed_to_plant)],
               "Planted")

\* plant without the test of the inventory.
plant_any_seed(g, seed_input, plot_input) ==
  LET seed_to_plant == lower(seed_input)
      seed_name == seed_name_of(seed_to_plant)
  IN
  IF raises_ValueError(plot_input)
  THEN Result(g, "ValueError")
  ELSE
    LET plot_num == int(plot_input) - 1 IN
    IF ~ valid_plot_num(g, plot_num)
    THEN Result(g, "InvalidPlotIndex")
    ELSE IF g.farm_plots[plot_num + 1].crop # None
    THEN Result(g, "PlotOccupied")
    ELSE
      Result([g EXCEPT
                !.farm_plots[plot_num + 1] = sown(@, seed_to_plant),
                !.inventory = IF seed_name \in DOMAIN @
                              THEN consume_seed(@, seed_name) ELSE @],
             "Planted")

plant(g, seed_input, plot_input) ==
  LET seed_to_plant == lower(seed_input)
      seed_name == seed_name_of(seed_to_plant)
  IN
  IF seed_name \notin DOMAIN g.inventory \/ g.inventory[seed_name] = 0
  THEN Result(g, "InsufficientInventory")
  ELSE IF raises_ValueError(plot_input)
  THEN Result(g, "ValueError")
  ELSE
    LET plot_num == int(plot_input) - 1 IN
    IF ~ valid_plot_num(g, plot_num)
    THEN Result(g, "InvalidPlotIndex")
    ELSE IF g.farm_plots[plot_num + 1].crop # None
    THEN Result(g, "PlotOccupied")
    ELSE
      Result([g EXCEPT
                !.farm_plots[plot_num + 1] = sown(@, seed_to_plant),
                !.inventory = consume_seed(@, seed_name)],
             "Planted")

\* run() dispatches 'p', the player answering from the given inputs.
PlantWith(seeds, plots) ==
  /\ pc = "menu" /\ ~ game_over
  /\ \E c \in seeds, p \in plots :
       Commit(plant(self, c, p), Cmd("plant", c, p, -1), "menu")

Plant == PlantWith(SeedInputs, PlotInputs)

(* -------------------------------- water -------------------------------- *)

\* water refusing a plot that is already watered.
water_once(g, plot_input) ==
  IF raises_ValueError(plot_input)
  THEN Result(g, "ValueError")
  ELSE
    LET plot_num == int(plot_input) - 1 IN
    IF ~ valid_plot_num(g, plot_num)
    THEN Result(g, "InvalidPlotIndex")
    ELSE IF g.farm_plots[plot_num + 1].crop = None
    THEN Result(g, "EmptyPlot")
    ELSE IF g.farm_plots[plot_num + 1].watered
    THEN Result(g, "AlreadyWatered")
    ELSE Result([g EXCEPT !.farm_plots[plot_num + 1].watered = TRUE],
                "Watered")

water(g, plot_input) ==
  IF raises_ValueError(plot_input)
  THEN Result(g, "ValueError")
  ELSE
    LET plot_num == int(plot_input) - 1 IN
    IF ~ valid_plot_num(g, plot_num)
    THEN Result(g, "InvalidPlotIndex")
    ELSE IF g.farm_plots[plot_num + 1].crop = None
    THEN Result(g, "EmptyPlot")
    ELSE Result([g EXCEPT !.farm_plots[plot_num + 1].watered = TRUE],
                "Watered")

\* run() dispatches 'w'.
WaterWith(plots) ==
  /\ pc = "menu" /\ ~ game_over
  /\ \E p \in plots :
       Commit(water(self, p), Cmd("water", NoInput, p, -1), "menu")

Water == WaterWith(PlotInputs)

(* ------------------------------- harvest ------------------------------- *)

\* The readiness test with <= for <.
not_ready_at_duration(plot) ==
  plot.growth_stage <= CROP_DATA[plot.crop].growth_time

\* plot['growth_stage'] < CROP_DATA[crop_name]['growth_time']
not_ready(plot) ==
  plot.growth_stage < CROP_DATA[plot.crop].growth_time

harvest(g, plot_input) ==
  IF raises_ValueError(plot_input)
  THEN Result(g, "ValueError")
  ELSE
    LET plot_num == int(plot_input) - 1 IN
    IF ~ valid_plot_num(g, plot_num)
    THEN Result(g, "InvalidPlotIndex")
    ELSE
      LET plot == g.farm_plots[plot_num + 1] IN
      IF plot.crop = None
      THEN Result(g, "EmptyPlot")
      ELSE IF not_ready(plot)
      THEN Result(g, "NotReady")
      ELSE Result([g EXCEPT !.money = @ + CROP_DATA[plot.crop].sell_price,
                            !.farm_plots[plot_num + 1] = EmptyPlot],
                  "Harvested")

\* run() dispatches 'h'.
HarvestWith(plots) ==
  /\ pc = "menu" /\ ~ game_over
  /\ \E p \in plots :
       Commit(harvest(self, p), Cmd("harvest", NoInput, p, -1), "menu")

Harvest == HarvestWith(PlotInputs)

(* ------------------------------ visit_shop ----------------------------- *)

\* dict.get(key, 0)
get0(d, key) == IF key \in DOMAIN d THEN d[key] ELSE 0

\* d[key] = value, creating the key when absent
put(d, key, value) ==
  [k \in (DOMAIN d) \cup {key} |-> IF k = key THEN value ELSE d[k]]

\* The funds test with > for >=.
can_afford_with_change(balance, price) == balance > price

\* self.money >= price
can_afford(balance, price) == balance >= price

\* A pass of the loop that sells without looking at the balance.
buy_seed_on_credit(g, shop_input) ==
  LET choice == lower(shop_input) IN
  IF choice \in DOMAIN CROP_DATA
  THEN
    LET price == CROP_DATA[choice].seed_price
        seed_name == seed_name_of(choice)
    IN
    Result([g EXCEPT !.money = @ - price,
                     !.inventory = put(@, seed_name, get0(@, seed_name) + 1)],
           "Bought")
  ELSE Result(g, "UnknownCrop")

\* A pass of the loop that stores 1 in place of get(seed_name, 0) + 1.
buy_seed_resets_count(g, shop_input) ==
  LET choice == lower(shop_input) IN
  IF choice \in DOMAIN CROP_DATA
  THEN
    LET price == CROP_DATA[choice].seed_price
        seed_name == seed_name_of(choice)
    IN
    IF can_afford(g.money, price)
    THEN Result([g EXCEPT !.money = @ - price,
                          !.inventory = put(@, seed_name, 1)],
                "Bought")
    ELSE Result(g, "InsufficientFunds")
  ELSE Result(g, "UnknownCrop")

\* One pass of visit_shop's loop for an input other than 'exit'.
buy_seed(g, shop_input) ==
  LET choice == lower(shop_input) IN
  IF choice \in DOMAIN CROP_DATA
  THEN
    LET price == CROP_DATA[choice].seed_price
        seed_name == seed_name_of(choice)
    IN
    IF can_afford(g.money, price)
    THEN Result([g EXCEPT !.money = @ - price,
                          !.inventory = put(@, seed_name,
                                            get0(@, seed_name) + 1)],
                "Bought")
    ELSE Result(g, "InsufficientFunds")
  ELSE Result(g, "UnknownCrop")

\* run() dispatches 's': visit_shop prints the price list and prompts.
EnterShop ==
  /\ pc = "menu" /\ ~ game_over
  /\ Commit(Result(self, "ShopOpen"),
            Cmd("shop", NoInput, NoInput, -1), "shop")

\* One pass of the loop; the player stops buying a kind once MaxSeeds of it
\* are held.
BuySeed ==
  /\ pc = "shop"
  /\ \E c \in ShopInputs :
       /\ get0(inventory, seed_name_of(lower(c))) < MaxSeeds
       /\ Commit(buy_seed(self, c), Cmd("buy", c, NoInput, -1), "shop")

\* choice == 'exit'
ExitShop ==
  /\ pc = "shop"
  /\ Commit(Result(self, "ShopClosed"),
            Cmd("exit", NoInput, NoInput, -1), "menu")

(* ------------------------------ advance_day ---------------------------- *)

\* The growth loop without the test of the watered flag.
grow_unwatered(plot) ==
  IF plot.crop # None
  THEN [plot EXCEPT !.growth_stage = @ + 1, !.watered = FALSE]
  ELSE plot

\* The body of the growth loop for one plot.
grow(plot) ==
  IF plot.crop # None
  THEN [plot EXCEPT !.growth_stage = IF plot.watered THEN @ + 1 ELSE @,
                    !.watered = FALSE]
  ELSE plot

\* growing_plots with <= for <, which lets the pest reach a ready plot.
growing_plots_or_ready(plots) ==
  { k \in DOMAIN plots :
      /\ plots[k].crop # None
      /\ plots[k].growth_stage <= CROP_DATA[plots[k].crop].growth_time }

\* The list indices (as sequence positions) of growing_plots.
growing_plots(plots) ==
  { k \in DOMAIN plots :
      /\ plots[k].crop # None
      /\ plots[k].growth_stage < CROP_DATA[plots[k].crop].growth_time }

max(a, b) == IF a >= b THEN a ELSE b

\* The pest branch without max(0, ...).
handle_random_event_unfloored(plots, chance) ==
  IF chance < PEST_BELOW
  THEN IF growing_plots(plots) # {}
       THEN { [plots EXCEPT ![k].growth_stage = @ - 1] :
                k \in growing_plots(plots) }
       ELSE {plots}
  ELSE IF chance < RAIN_BELOW
  THEN { [k \in DOMAIN plots |-> [plots[k] EXCEPT !.watered = TRUE]] }
  ELSE {plots}

\* The rain branch as a second 'if' in place of 'elif': a pest sample also
\* brings the rain.
handle_random_event_both(plots, chance) ==
  LET pested ==
        IF chance < PEST_BELOW /\ growing_plots(plots) # {}
        THEN { [plots EXCEPT ![k].growth_stage = max(0, @ - 1)] :
                 k \in growing_plots(plots) }
        ELSE {plots}
  IN
  IF chance < RAIN_BELOW
  THEN { [k \in DOMAIN ps |-> [ps[k] EXCEPT !.watered = TRUE]] :
           ps \in pested }
  ELSE pested

\* The plots handle_random_event can leave, given the sample; the set is
\* the choices of random.choice.
handle_random_event(plots, chance) ==
  IF chance < PEST_BELOW
  THEN IF growing_plots(plots) # {}
       THEN { [plots EXCEPT ![k].growth_stage = max(0, @ - 1)] :
                k \in growing_plots(plots) }
       ELSE {plots}
  ELSE IF chance < RAIN_BELOW
  THEN { [k \in DOMAIN plots |-> [plots[k] EXCEPT !.watered = TRUE]] }
  ELSE {plots}

event_of(chance) ==
  IF chance < PEST_BELOW THEN "pest"
  ELSE IF chance < RAIN_BELOW THEN "rain" ELSE "none"

\* The win check with > for >=.
goal_passed(balance) == balance > GAME_GOAL

\* self.money >= GAME_GOAL
goal_reached(balance) == balance >= GAME_GOAL

\* advance_day resolving the event before the growth loop.
advance_day_event_first(g, chance) ==
  { Result([g EXCEPT !.day = @ + 1,
                     !.farm_plots = [k \in DOMAIN after |-> grow(after[k])],
                     !.game_over = IF goal_reached(g.money) THEN TRUE ELSE @],
           event_of(chance)) :
      after \in handle_random_event(g.farm_plots, chance) }

\* The game objects advance_day can leave.
advance_day(g, chance) ==
  LET grown == [k \in DOMAIN g.farm_plots |-> grow(g.farm_plots[k])] IN
  { Result([g EXCEPT !.day = @ + 1,
                     !.farm_plots = after,
                     !.game_over = IF goal_reached(g.money) THEN TRUE ELSE @],
           event_of(chance)) :
      after \in handle_random_event(grown, chance) }

\* run() dispatches 'n'; the player stops at the given day.
AdvanceDayUntil(samples, last_day) ==
  /\ pc = "menu" /\ ~ game_over
  /\ day < last_day
  /\ \E chance \in samples :
       \E r \in advance_day(self, chance) :
         Commit(r, Cmd("next", NoInput, NoInput, chance), "menu")

AdvanceDayWith(samples) == AdvanceDayUntil(samples, MaxDay)

AdvanceDay == AdvanceDayWith(Samples)

(* --------------------------------- run --------------------------------- *)

\* 'i': display_inventory only prints.
Inspect ==
  /\ pc = "menu" /\ ~ game_over
  /\ Commit(Result(self, "Inventory"),
            Cmd("inspect", NoInput, NoInput, -1), "menu")

\* Any other command.
InvalidCommand ==
  /\ pc = "menu" /\ ~ game_over
  /\ Commit(Result(self, "InvalidCommand"),
            Cmd("invalid", NoInput, NoInput, -1), "menu")

\* 'q'
Quit ==
  /\ pc = "menu" /\ ~ game_over
  /\ Commit(Result([self EXCEPT !.game_over = TRUE], "Quit"),
            Cmd("quit", NoInput, NoInput, -1), "menu")

Next ==
  \/ Plant
  \/ Water
  \/ Harvest
  \/ EnterShop
  \/ BuySeed
  \/ ExitShop
  \/ AdvanceDay
  \/ Inspect
  \/ InvalidCommand
  \/ Quit

Spec == Init /\ [][Next]_vars

(* A thrifty player: every command is well formed and aimed at the first  *)
(* plot, potatoes are planted, and seeds are bought for as long as the     *)
(* shop sells them, so that the balance reaches a seed price exactly and   *)
(* reaches 0.                                                              *)

MarketInputs == {"Potato", "corn", "turnip"}
ThriftySeeds == {"Potato"}
ThriftyPlots == {"1"}
ThriftySamples == {14, 29, 30}

PlantFirst == PlantWith(ThriftySeeds, ThriftyPlots)

WaterFirst == WaterWith(ThriftyPlots)

HarvestFirst == HarvestWith(ThriftyPlots)

BuyAtMarket ==
  /\ pc = "shop"
  /\ \E c \in MarketInputs :
       Commit(buy_seed(self, c), Cmd("buy", c, NoInput, -1), "shop")

NextDay == AdvanceDayWith(ThriftySamples)

NextMarket ==
  \/ PlantFirst
  \/ WaterFirst
  \/ HarvestFirst
  \/ EnterShop
  \/ BuyAtMarket
  \/ ExitShop
  \/ NextDay

SpecMarket == Init /\ [][NextMarket]_vars

(* A player who tends two fields of carrots with well-formed commands,     *)
(* under every kind of night.                                              *)

FieldSeeds == {"Carrot"}
FieldPlots == {"1", "2"}

PlantField == PlantWith(FieldSeeds, FieldPlots)

WaterField == WaterWith(FieldPlots)

HarvestField == HarvestWith(FieldPlots)

NextFields ==
  \/ PlantField
  \/ WaterField
  \/ HarvestField
  \/ EnterShop
  \/ BuySeed
  \/ ExitShop
  \/ AdvanceDay

SpecFields == Init /\ [][NextFields]_vars

(* A player who lives on the staples: wheat is bought for as long as the   *)
(* balance allows, wheat and potatoes are planted on the first plot, and   *)
(* the nights bring any event.                                             *)

StapleInputs == {"wheat"}
StapleSeeds == {"wheat", "Potato"}

PlantStaple == PlantWith(StapleSeeds, ThriftyPlots)

BuyStaple ==
  /\ pc = "shop"
  /\ \E c \in StapleInputs :
       Commit(buy_seed(self, c), Cmd("buy", c, NoInput, -1), "shop")

NextStaples ==
  \/ PlantStaple
  \/ WaterFirst
  \/ HarvestFirst
  \/ EnterShop
  \/ BuyStaple
  \/ ExitShop
  \/ AdvanceDay

SpecStaples == Init /\ [][NextStaples]_vars

(* A carrot grower who works the four plots in order: reaps what is ripe,  *)
(* buys a carrot seed for every empty plot, sows, waters every crop and    *)
(* only then lets the night come; the nights are quiet or rainy.  The      *)
(* grower may quit at any prompt.                                          *)

SeasonPlots == {"1", "2", "3", "4"}
SeasonSamples == {29, 30}

\* The prompt answer that names the sequence position k.
PlotInput(k) == CHOOSE p \in SeasonPlots : int(p) = k

Lowest(S) == CHOOSE k \in S : \A j \in S : k <= j

RipePlots ==
  {k \in DOMAIN farm_plots :
     farm_plots[k].crop # None /\ ~ not_ready(farm_plots[k])}

EmptyPlots == {k \in DOMAIN farm_plots : farm_plots[k].crop = None}

DryPlots ==
  {k \in DOMAIN farm_plots :
     farm_plots[k].crop # None /\ ~ farm_plots[k].watered}

CarrotsHeld == get0(inventory, "carrot seeds")

Reap ==
  /\ RipePlots # {}
  /\ HarvestWith({PlotInput(Lowest(RipePlots))})

GoToShop ==
  /\ RipePlots = {}
  /\ CarrotsHeld < Cardinality(EmptyPlots)
  /\ EnterShop

BuyCarrot ==
  /\ pc = "shop"
  /\ CarrotsHeld < Cardinality(EmptyPlots)
  /\ Commit(buy_seed(self, "carrot"),
            Cmd("buy", "carrot", NoInput, -1), "shop")

LeaveShop ==
  /\ CarrotsHeld >= Cardinality(EmptyPlots)
  /\ ExitShop

Sow ==
  /\ RipePlots = {}
  /\ EmptyPlots # {}
  /\ CarrotsHeld >= Cardinality(EmptyPlots)
  /\ PlantWith({"carrot"}, {PlotInput(Lowest(EmptyPlots))})

WaterCrops ==
  /\ RipePlots = {} /\ EmptyPlots = {}
  /\ DryPlots # {}
  /\ WaterWith({PlotInput(Lowest(DryPlots))})

Sleep ==
  /\ RipePlots = {} /\ EmptyPlots = {} /\ DryPlots = {}
  /\ AdvanceDayUntil(SeasonSamples, MaxSeason)

NextSeason ==
  \/ Reap
  \/ GoToShop
  \/ BuyCarrot
  \/ LeaveShop
  \/ Sow
  \/ WaterCrops
  \/ Sleep
  \/ Quit

SpecSeason == Init /\ [][NextSeason]_vars

(* ------------------------- vocabulary of the claims -------------------- *)

\* The plot input names list index int(p) - 1 of an existing plot.
InRange(p) ==
  /\ ~ raises_ValueError(p)
  /\ int(p) >= 1
  /\ int(p) <= INITIAL_PLOTS

Occupied(plot) == plot.crop # None

growth_duration(plot) == CROP_DATA[plot.crop].growth_time

\* The outcomes that report a failed plant, water, harvest or buy.
Failures ==
  {"InsufficientInventory", "InvalidPlotIndex", "PlotOccupied", "EmptyPlot",
   "NotReady", "InsufficientFunds", "UnknownCrop", "ValueError"}

\* C1: every occupied plot has 0 <= progress <= growth duration of its crop.
C1_ProgressWithinDuration ==
  \A k \in DOMAIN farm_plots :
    Occupied(farm_plots[k]) =>
      /\ 0 <= farm_plots[k].growth_stage
      /\ farm_plots[k].growth_stage <= growth_duration(farm_plots[k])

\* C2: the balance is never negative, and a step that lowers it is a
\* successful buy-seed taken with balance >= the seed price, lowering it by
\* that price.
C2_BalanceNeverNegative ==
  /\ [](money >= 0)
  /\ [][money' < money =>
          /\ last'.op = "buy" /\ last'.out = "Bought"
          /\ lower(last'.crop) \in DOMAIN CROP_DATA
          /\ money >= CROP_DATA[lower(last'.crop)].seed_price
          /\ money' = money - CROP_DATA[lower(last'.crop)].seed_price]_vars

\* A buy took the whole balance after a harvest had raised it.
C2_Witness ==
  /\ last.op = "buy" /\ last.out = "Bought"
  /\ money = 0
  /\ day > CROP_DATA["potato"].growth_time

\* C3: the inventory holds no entry whose count is zero or negative.
C3_NoZeroEntries ==
  \A key \in DOMAIN inventory : inventory[key] > 0

\* A plant consumed the last seed of its kind.
C3_Witness ==
  /\ last.op = "plant" /\ last.out = "Planted"
  /\ seed_name_of(lower(last.crop)) \notin DOMAIN inventory

\* C4: a plant, water, harvest or buy-seed that fails leaves balance, day,
\* inventory, plots and terminal flag as they were.
C4_FailureChangesNothing ==
  [][(last'.op \in {"plant", "water", "harvest", "buy"}
        /\ last'.out \in Failures)
       => UNCHANGED <<money, day, farm_plots, inventory, game_over>>]_vars

\* A plant failed on its plot index after the seed check had passed.
C4_Witness ==
  /\ last.op = "plant"
  /\ last.out \in {"InvalidPlotIndex", "ValueError", "PlotOccupied"}

\* C5: harvest of an in-range occupied plot whose progress equals the growth
\* duration succeeds, adds the sale price to the balance, empties the plot
\* and changes nothing else.
C5_HarvestReady ==
  [][\A p \in PlotInputs :
       ( /\ last'.op = "harvest" /\ last'.plot = p
         /\ InRange(p)
         /\ Occupied(farm_plots[int(p)])
         /\ farm_plots[int(p)].growth_stage
              = growth_duration(farm_plots[int(p)]) )
       => /\ last'.out = "Harvested"
          /\ money' = money + CROP_DATA[farm_plots[int(p)].crop].sell_price
          /\ farm_plots'[int(p)]
               = [crop |-> None, growth_stage |-> 0, watered |-> FALSE]
          /\ \A k \in DOMAIN farm_plots :
               k # int(p) => farm_plots'[k] = farm_plots[k]
          /\ DOMAIN farm_plots' = DOMAIN farm_plots
          /\ inventory' = inventory
          /\ day' = day]_vars

\* A carrot was harvested on the first day it can be ready.
C5_Witness ==
  /\ last.op = "harvest" /\ last.out = "Harvested"
  /\ day = 1 + CROP_DATA["carrot"].growth_time
  /\ money = INITIAL_MONEY - CROP_DATA["carrot"].seed_price
               + CROP_DATA["carrot"].sell_price

\* C6: a harvest succeeds only on an in-range occupied plot whose progress
\* is equal to its growth duration; with any other progress it is NotReady
\* and the balance is unchanged.
C6_HarvestOnlyAtDuration ==
  [][\A p \in PlotInputs :
       ( /\ last'.op = "harvest" /\ last'.plot = p
         /\ InRange(p)
         /\ Occupied(farm_plots[int(p)])
         /\ farm_plots[int(p)].growth_stage
              # growth_duration(farm_plots[int(p)]) )
       => (last'.out = "NotReady" /\ money' = money)]_vars

\* C7: plant reports the first failing precondition in the order inventory,
\* plot index, plot emptiness, and succeeds exactly when all three hold.
C7_PlantCheckOrder ==
  [][\A c \in SeedInputs, p \in PlotInputs :
       (last'.op = "plant" /\ last'.crop = c /\ last'.plot = p) =>
         LET has_seed == get0(inventory, seed_name_of(lower(c))) >= 1
             numeric == ~ raises_ValueError(p)
         IN
         /\ ~ has_seed => last'.out = "InsufficientInventory"
         /\ (has_seed /\ numeric /\ ~ InRange(p))
              => last'.out = "InvalidPlotIndex"
         /\ (has_seed /\ InRange(p) /\ Occupied(farm_plots[int(p)]))
              => last'.out = "PlotOccupied"
         /\ last'.out = "Planted"
              <=> ( /\ has_seed /\ InRange(p)
                    /\ ~ Occupied(farm_plots[int(p)]) )]_vars

\* A plant without a seed of the kind named an occupied plot.
C7_Witness ==
  /\ last.op = "plant" /\ last.out = "InsufficientInventory"
  /\ InRange(last.plot)
  /\ Occupied(farm_plots[int(last.plot)])

\* C8: a successful plant of c into plot i makes plot i {c, 0, false},
\* takes one seed of c from the inventory (dropping the entry at 0) and
\* leaves the other plots, the other entries, balance and day unchanged.
C8_PlantEffect ==
  [][\A c \in SeedInputs, p \in PlotInputs :
       ( /\ last'.op = "plant" /\ last'.crop = c /\ last'.plot = p
         /\ last'.out = "Planted" )
       => LET key == seed_name_of(lower(c)) IN
          /\ farm_plots'[int(p)]
               = [crop |-> lower(c), growth_stage |-> 0, watered |-> FALSE]
          /\ DOMAIN farm_plots' = DOMAIN farm_plots
          /\ \A k \in DOMAIN farm_plots :
               k # int(p) => farm_plots'[k] = farm_plots[k]
          /\ get0(inventory', key) = get0(inventory, key) - 1
          /\ key \in DOMAIN inventory' <=> get0(inventory, key) > 1
          /\ \A other \in (DOMAIN inventory \cup DOMAIN inventory') \ {key} :
               /\ other \in DOMAIN inventory /\ other \in DOMAIN inventory'
               /\ inventory'[other] = inventory[other]
          /\ money' = money
          /\ day' = day]_vars

\* A seed was planted while rain water stood on an empty plot.
C8_Witness ==
  /\ last.op = "plant" /\ last.out = "Planted"
  /\ \E k \in DOMAIN farm_plots :
       ~ Occupied(farm_plots[k]) /\ farm_plots[k].watered

\* C9: buy-seed of a kind in the crop table succeeds exactly when balance >=
\* seed price, then lowering the balance by the price and raising the count
\* of that kind by 1; otherwise it is InsufficientFunds, and for a kind not
\* in the table UnknownCrop, with balance and inventory unchanged.
C9_BuySeed ==
  [][\A c \in MarketInputs \cup ShopInputs :
       (last'.op = "buy" /\ last'.crop = c) =>
         LET kind == lower(c)
             key == seed_name_of(kind)
         IN
         IF kind \in DOMAIN CROP_DATA
         THEN IF money >= CROP_DATA[kind].seed_price
              THEN /\ last'.out = "Bought"
                   /\ money' = money - CROP_DATA[kind].seed_price
                   /\ DOMAIN inventory' = DOMAIN inventory \cup {key}
                   /\ inventory'[key] = get0(inventory, key) + 1
                   /\ \A other \in DOMAIN inventory \ {key} :
                        inventory'[other] = inventory[other]
                   /\ UNCHANGED <<day, farm_plots, game_over>>
              ELSE /\ last'.out = "InsufficientFunds"
                   /\ UNCHANGED <<money, day, farm_plots, inventory,
                                  game_over>>
         ELSE /\ last'.out = "UnknownCrop"
              /\ UNCHANGED <<money, day, farm_plots, inventory, game_over>>]_vars

\* A buy was refused for lack of funds although seeds had been bought.
C9_Witness ==
  /\ last.op = "buy" /\ last.out = "InsufficientFunds"
  /\ money < CROP_DATA[lower(last.crop)].seed_price
  /\ "corn seeds" \in DOMAIN inventory

\* C10: water on an in-range occupied plot succeeds and sets only that
\* plot's watered flag, and water on the same plot again succeeds and
\* leaves exactly the state of the first application.
C10_WaterIdempotent ==
  \A p \in PlotInputs :
    (InRange(p) /\ Occupied(farm_plots[int(p)])) =>
      LET first == water(self, p)
          second == water(first.g, p)
      IN
      /\ first.out = "Watered"
      /\ first.g.farm_plots[int(p)].watered
      /\ first.g.farm_plots[int(p)].crop = farm_plots[int(p)].crop
      /\ first.g.farm_plots[int(p)].growth_stage
           = farm_plots[int(p)].growth_stage
      /\ \A k \in DOMAIN farm_plots :
           k # int(p) => first.g.farm_plots[k] = farm_plots[k]
      /\ first.g.money = money
      /\ first.g.inventory = inventory
      /\ first.g.day = day
      /\ second.out = "Watered"
      /\ second.g = first.g

\* A plot with progress was watered.
C10_Witness ==
  /\ last.op = "water" /\ last.out = "Watered"
  /\ farm_plots[int(last.plot)].watered
  /\ farm_plots[int(last.plot)].growth_stage > 0

(* --------------------------- the day-advance --------------------------- *)

\* The plots as the growth loop of advance_day leaves them, before the event.
AfterGrowth == [k \in DOMAIN farm_plots |-> grow(farm_plots[k])]

\* The plots still growing in a list of plots.
StillGrowing(plots) ==
  { k \in DOMAIN plots :
      Occupied(plots[k])
        /\ plots[k].growth_stage < growth_duration(plots[k]) }

\* C11: an advance-day without event raises by exactly 1 the progress of
\* every occupied, watered plot below its duration, keeps the progress of
\* every occupied plot that was not watered, raises the day by 1 and leaves
\* balance and inventory unchanged.
C11_QuietDayGrowth ==
  [][(last'.op = "next" /\ last'.chance >= RAIN_BELOW) =>
       /\ \A k \in DOMAIN farm_plots :
            Occupied(farm_plots[k]) =>
              /\ farm_plots'[k].crop = farm_plots[k].crop
              /\ ( farm_plots[k].watered
                     /\ farm_plots[k].growth_stage
                          < growth_duration(farm_plots[k]) )
                   => farm_plots'[k].growth_stage
                        = farm_plots[k].growth_stage + 1
              /\ ~ farm_plots[k].watered
                   => farm_plots'[k].growth_stage
                        = farm_plots[k].growth_stage
       /\ day' = day + 1
       /\ money' = money
       /\ inventory' = inventory]_vars

\* A quiet first night after which one crop has grown and another has not.
C11_Witness ==
  /\ last.op = "next" /\ last.chance >= RAIN_BELOW
  /\ day = 2
  /\ \E j, k \in DOMAIN farm_plots :
       /\ Occupied(farm_plots[j]) /\ farm_plots[j].growth_stage = 1
       /\ Occupied(farm_plots[k]) /\ farm_plots[k].growth_stage = 0

\* C12: a pest event lowers by 1, floored at 0, the progress of exactly one
\* plot still growing after the growth step and changes nothing else; with
\* no plot still growing it changes nothing.
C12_PestEvent ==
  [][(last'.op = "next" /\ last'.chance < PEST_BELOW) =>
       /\ IF StillGrowing(AfterGrowth) # {}
          THEN \E k \in StillGrowing(AfterGrowth) :
                 farm_plots' =
                   [AfterGrowth EXCEPT ![k].growth_stage =
                      IF @ >= 1 THEN @ - 1 ELSE 0]
          ELSE farm_plots' = AfterGrowth
       /\ money' = money
       /\ inventory' = inventory]_vars

\* The pest struck the only crop on the farm, which is left at progress 1.
C12_Witness ==
  /\ last.op = "next" /\ last.chance < PEST_BELOW
  /\ Cardinality({k \in DOMAIN farm_plots : Occupied(farm_plots[k])}) = 1
  /\ \E k \in DOMAIN farm_plots :
       Occupied(farm_plots[k]) /\ farm_plots[k].growth_stage = 1
  /\ day = 3

\* C13: a rain event leaves every plot watered and changes no crop or
\* progress of the grown plots, nor balance or inventory; an advance-day with
\* a pest sample sets no watered flag, so no advance-day applies both.
C13_RainEvent ==
  [][(last'.op = "next") =>
       /\ (last'.chance >= PEST_BELOW /\ last'.chance < RAIN_BELOW) =>
            /\ \A k \in DOMAIN farm_plots :
                 /\ farm_plots'[k].watered
                 /\ farm_plots'[k].crop = AfterGrowth[k].crop
                 /\ farm_plots'[k].growth_stage = AfterGrowth[k].growth_stage
            /\ DOMAIN farm_plots' = DOMAIN farm_plots
            /\ money' = money
            /\ inventory' = inventory
       /\ last'.chance < PEST_BELOW =>
            \A k \in DOMAIN farm_plots :
              farm_plots'[k].watered = AfterGrowth[k].watered]_vars

\* Rain fell on a farm with a crop and an empty plot.
C13_Witness ==
  /\ last.op = "next"
  /\ last.chance >= PEST_BELOW /\ last.chance < RAIN_BELOW
  /\ \A k \in DOMAIN farm_plots : farm_plots[k].watered
  /\ \E j, k \in DOMAIN farm_plots :
       Occupied(farm_plots[j]) /\ ~ Occupied(farm_plots[k])

\* C16: after an advance-day without rain every plot, empty ones included,
\* has watered = false.
C16_AllDryAfterDay ==
  [][(last'.op = "next"
        /\ ~ (last'.chance >= PEST_BELOW /\ last'.chance < RAIN_BELOW))
       => \A k \in DOMAIN farm_plots : ~ farm_plots'[k].watered]_vars

\* C17: an advance-day raises no plot's progress by more than 1 and raises
\* it only for a plot that was occupied and watered before the step; water,
\* buy-seed and failed operations change no plot's progress.
C17_GrowthNeedsWater ==
  [][/\ last'.op = "next" =>
          \A k \in DOMAIN farm_plots :
            /\ farm_plots'[k].growth_stage <= farm_plots[k].growth_stage + 1
            /\ farm_plots'[k].growth_stage > farm_plots[k].growth_stage
                 => (Occupied(farm_plots[k]) /\ farm_plots[k].watered)
     /\ (last'.op \in {"water", "buy"} \/ last'.out \in Failures) =>
          \A k \in DOMAIN farm_plots :
            farm_plots'[k].growth_stage = farm_plots[k].growth_stage]_vars

\* Rain fell in the first night on a crop that had not been watered.
C17_Witness ==
  /\ last.op = "next"
  /\ last.chance >= PEST_BELOW /\ last.chance < RAIN_BELOW
  /\ day = 2
  /\ \E k \in DOMAIN farm_plots :
       /\ Occupied(farm_plots[k])
       /\ farm_plots[k].growth_stage = 0
       /\ farm_plots[k].watered

\* C18: the crop of every occupied plot is a key of the crop table, and
\* every inventory entry is the seed entry of a kind of the crop table.
C18_CropsAreKnown ==
  /\ \A k \in DOMAIN farm_plots :
       Occupied(farm_plots[k]) => farm_plots[k].crop \in DOMAIN CROP_DATA
  /\ \A key \in DOMAIN inventory :
       \E kind \in DOMAIN CROP_DATA : key = seed_name_of(kind)

\* A plant of a kind outside the crop table was refused on a free plot.
C18_Witness ==
  /\ last.op = "plant" /\ last.out = "InsufficientInventory"
  /\ lower(last.crop) \notin DOMAIN CROP_DATA
  /\ InRange(last.plot)
  /\ ~ Occupied(farm_plots[int(last.plot)])

\* The plot can be harvested: its progress has reached its crop's duration.
Harvestable(plot) ==
  Occupied(plot) /\ plot.growth_stage >= growth_duration(plot)

\* C20: a harvestable plot keeps its crop and stays harvestable through
\* every step other than its own successful harvest.
C20_ReadyStaysReady ==
  [][\A k \in DOMAIN farm_plots :
       ( /\ Harvestable(farm_plots[k])
         /\ ~ ( /\ last'.op = "harvest" /\ last'.out = "Harvested"
                /\ InRange(last'.plot) /\ int(last'.plot) = k ) )
       => /\ farm_plots'[k].crop = farm_plots[k].crop
          /\ Harvestable(farm_plots'[k])]_vars

\* A pest came in the night after a carrot was ready (the carrot, watered,
\* went on to progress 4) while another crop was still growing.
C20_Witness ==
  /\ last.op = "next" /\ last.chance < PEST_BELOW
  /\ day = 2 + CROP_DATA["carrot"].growth_time
  /\ \E k \in DOMAIN farm_plots :
       /\ farm_plots[k].crop = "carrot"
       /\ farm_plots[k].growth_stage = 1 + CROP_DATA["carrot"].growth_time
       /\ \E j \in DOMAIN farm_plots :
            Occupied(farm_plots[j]) /\ ~ Harvestable(farm_plots[j])

(* ----------------------------- the scenario ---------------------------- *)

\* A game object of the scenario: only plot 0 is used.
Game(balance, d, plot0, inv) ==
  [ money |-> balance, day |-> d,
    farm_plots |-> [k \in 1..INITIAL_PLOTS |->
                      IF k = 1 THEN plot0 ELSE EmptyPlot],
    inventory |-> inv, game_over |-> FALSE ]

WheatPlot(progress, wet) ==
  [crop |-> "wheat", growth_stage |-> progress, watered |-> wet]

StarterSeeds == [k \in {"wheat seeds", "potato seeds"} |-> 5]

\* The command of a step.
Typed(o, c, p) == last'.op = o /\ last'.crop = c /\ last'.plot = p

\* The steps of the scenario, each from the state the step before leaves,
\* with the inventory after the buy and after the plant as given.
ScenarioSteps(bought, planted) ==
  /\ (self = Game(100, 1, EmptyPlot, StarterSeeds)
        /\ Typed("buy", "wheat", NoInput))
       => self' = Game(90, 1, EmptyPlot, bought)
  /\ (self = Game(90, 1, EmptyPlot, bought) /\ Typed("plant", "wheat", "1"))
       => self' = Game(90, 1, WheatPlot(0, FALSE), planted)
  /\ \A n \in 0..3 :
       /\ (self = Game(90, 1 + n, WheatPlot(n, FALSE), planted)
             /\ Typed("water", NoInput, "1"))
            => self' = Game(90, 1 + n, WheatPlot(n, TRUE), planted)
       /\ (self = Game(90, 1 + n, WheatPlot(n, TRUE), planted)
             /\ Typed("next", NoInput, NoInput)
             /\ last'.chance >= RAIN_BELOW)
            => self' = Game(90, 2 + n, WheatPlot(n + 1, FALSE), planted)
  /\ (self = Game(90, 5, WheatPlot(4, FALSE), planted)
        /\ Typed("harvest", NoInput, "1"))
       => (self' = Game(115, 5, EmptyPlot, planted)
             /\ last'.out = "Harvested")

\* C14 as stated: the scenario with inventory {wheat: 1} after the buy and
\* an empty inventory after the plant.
C14_ScenarioAsStated ==
  [][ScenarioSteps([k \in {"wheat seeds"} |-> 1], <<>>)]_vars

\* C14, amended: buy wheat, plant it in plot 0, four times water and a quiet
\* night, harvest: balance 90 and inventory {wheat: 6, potato: 5} after the
\* buy, plot 0 = {wheat, 0, false} and inventory {wheat: 5, potato: 5} after
\* the plant, progress 1, 2, 3, 4 with watered false after the nights,
\* balance 115 and plot 0 empty after the harvest.
C14_Scenario ==
  [][ScenarioSteps([StarterSeeds EXCEPT !["wheat seeds"] = 6],
                   StarterSeeds)]_vars

\* The end of the scenario.
C14_Witness ==
  /\ self = Game(115, 5, EmptyPlot, StarterSeeds)
  /\ last.op = "harvest" /\ last.out = "Harvested"

(* ------------------------------ solvency ------------------------------- *)

\* The lowest seed price of the crop table.
CheapestSeed ==
  CHOOSE price \in {CROP_DATA[kind].seed_price : kind \in DOMAIN CROP_DATA} :
    \A kind \in DOMAIN CROP_DATA : price <= CROP_DATA[kind].seed_price

C15_GameEndsOnGoal ==
  [][/\ ~ game_over
     /\ last'.op = "next" => (game_over' <=> money' >= GAME_GOAL)
     /\ game_over' =>
          \/ last'.op = "next" /\ money' >= GAME_GOAL
          \/ last'.op = "quit"]_vars

\* The night fell with the balance at the goal, and the game is won.
C15_Witness ==
  /\ game_over
  /\ last.op = "next"
  /\ money >= GAME_GOAL

====
